---- MODULE Spec2Model ----
(***************************************************************************)
(* Model of the rule-based decision engine MarketAgent.analyze_market      *)
(* (src/agent.py) and of the configuration values it reads (src/config.py).*)
(*                                                                         *)
(* Arithmetic.  The code computes in Python floats; the model computes the *)
(* same expressions exactly, in fixed point:                               *)
(*   - a time factor t is held as the integer t * TF_DEN (TF_DEN = 18000   *)
(*     is the least scale that makes every factor of the table integral    *)
(*     for an integral seconds_left);                                      *)
(*   - an edge is in cents, so a score s is held as s * 100 * TF_DEN and a *)
(*     confidence c as c * CONF_DEN, CONF_DEN = 100 * TF_DEN;              *)
(*   - RULE_MIN_CONFIDENCE is in hundredths, velocities and                *)
(*     TREND_FOLLOW_VELOCITY are in tenths of a dollar per second.         *)
(* The comparison of distance_ratio with 1.5 and 1.0 is done on squares,   *)
(* which avoids the square root without changing the outcome.              *)
(*                                                                         *)
(* Rounding.  Exact and float arithmetic order two values the same way     *)
(* unless the exact values are equal (distinct exact values here differ by *)
(* at least 1/CONF_DEN).  Two comparisons of the code can meet equal exact *)
(* values computed by different float expressions: yes_score against       *)
(* no_score, and confidence against RULE_MIN_CONFIDENCE.  There the float  *)
(* outcome depends on rounding (0.05 + 0.10 > 0.15 in floats), so the      *)
(* model takes it from fp, the platform's rounding, which is unknown but   *)
(* fixed: any outcome may be chosen the first time, and it stays.          *)
(*                                                                         *)
(* A reasoning string is held as the sequence of its parts (one record per *)
(* "; "-joined part, carrying the values the part prints).                 *)
(***************************************************************************)
EXTENDS Integers, Sequences, FiniteSets, TLC

Min(a, b) == IF a <= b THEN a ELSE b
Max(a, b) == IF a >= b THEN a ELSE b
Abs(a) == IF a >= 0 THEN a ELSE -a

(***************************************************************************)
(* Fixed-point scales.                                                     *)
(***************************************************************************)
TF_DEN == 18000
CONF_DEN == 100 * TF_DEN
\* 0.95 and 0.45 of agent.py lines 156-167, in units of 1/CONF_DEN
CONF_CAP == 95 * TF_DEN
CONF_BASE == 45 * TF_DEN

(***************************************************************************)
(* dict.get(key, default): a field of market_data is <<>> when the key is  *)
(* missing and <<v>> when it is present with value v.                      *)
(***************************************************************************)
Get(field, default) == IF field = <<>> THEN default ELSE field[1]

\* the value None, and the absent alpha_monitor argument
None == [decision |-> "None"]
NoMonitor == [present |-> FALSE]

(***************************************************************************)
(* 4. Time decay (agent.py 69-98).                                         *)
(***************************************************************************)
max_contract_secs == 900

\* min(1.0, max(0.0, secs_left / 900)), as a numerator over max_contract_secs
raw_time_factor(secs_left) == Min(max_contract_secs, Max(0, secs_left))

\* vol["vol_dollar_per_min"] if vol["vol_dollar_per_min"] >= 50 else 200
vol_dpm(vol) == IF vol.vol_dollar_per_min >= 50 THEN vol.vol_dollar_per_min ELSE 200

\* distance_ratio > twice/2, where
\*   expected_move  = vol_dpm * sqrt(max(secs_left, 1) / 60)
\*   distance_ratio = min(10.0, abs(btc_vs_strike) / max(expected_move, 50)).
\* For twice/2 < 10:  ratio > twice/2  <=>  2|b| > twice * 50  and
\*   2|b| > twice * vol_dpm * sqrt(m/60)  <=>  240 b^2 > twice^2 vol_dpm^2 m.
DistanceRatioAbove(twice, btc_vs_strike, vol, secs_left) ==
    LET a == Abs(btc_vs_strike)
        v == vol_dpm(vol)
        m == Max(secs_left, 1)
    IN  /\ 2 * a > twice * 50
        /\ 240 * a * a > twice * twice * v * v * m

\* (winning_boost, losing_factor), each times TF_DEN
BoostTable(btc_vs_strike, vol, secs_left) ==
    LET r == raw_time_factor(secs_left) IN
    IF DistanceRatioAbove(3, btc_vs_strike, vol, secs_left)
    THEN [winning_boost |-> TF_DEN + 15 * (max_contract_secs - r),
          losing_factor |-> 6 * r]
    ELSE IF DistanceRatioAbove(2, btc_vs_strike, vol, secs_left)
    THEN [winning_boost |-> TF_DEN + 8 * (max_contract_secs - r),
          losing_factor |-> 12 * r]
    ELSE [winning_boost |-> 20 * r, losing_factor |-> 20 * r]

TimeFactorsSwapped(btc_vs_strike, vol, secs_left) ==
    LET t == BoostTable(btc_vs_strike, vol, secs_left) IN
    IF btc_vs_strike > 0
    THEN [yes |-> t.losing_factor, no |-> t.winning_boost]
    ELSE [yes |-> t.winning_boost, no |-> t.losing_factor]

\* yes_time_factor and no_time_factor (agent.py 93-98)
TimeFactors(btc_vs_strike, vol, secs_left) ==
    LET t == BoostTable(btc_vs_strike, vol, secs_left) IN
    IF btc_vs_strike > 0
    THEN [yes |-> t.winning_boost, no |-> t.losing_factor]
    ELSE [yes |-> t.losing_factor, no |-> t.winning_boost]


(***************************************************************************)
(* Guard (agent.py 47): not alpha_monitor or not strike or strike <= 0.    *)
(***************************************************************************)
GuardIgnoresSign(alpha_monitor, strike) ==
    \/ ~alpha_monitor.present
    \/ strike = 0

GuardFails(alpha_monitor, strike) ==
    \/ ~alpha_monitor.present
    \/ strike = 0
    \/ strike <= 0

(***************************************************************************)
(* Low-vol sit-out (agent.py 109).                                         *)
(***************************************************************************)
SitOutOnMedium(cfg, regime) == cfg.RULE_SIT_OUT_LOW_VOL /\ regime = "medium"

SitOut(cfg, regime) == cfg.RULE_SIT_OUT_LOW_VOL /\ regime = "low"

(***************************************************************************)
(* Edges (agent.py 113-116), in cents.                                     *)
(***************************************************************************)
yes_cost(best_ask) == best_ask
no_cost(best_bid) == 100 - best_bid
yes_edge(fair_yes_cents, best_ask) == fair_yes_cents - yes_cost(best_ask)
no_edge(fair_yes_cents, best_bid) == (100 - fair_yes_cents) - no_cost(best_bid)

\* min_edge after the high-vol relaxation (agent.py 121, 128-129)
min_edge(cfg, regime) ==
    IF regime = "high" THEN Max(3, cfg.MIN_EDGE_CENTS - 3) ELSE cfg.MIN_EDGE_CENTS

\* regime == "high" and abs(vel_1m) > config.TREND_FOLLOW_VELOCITY
TrendFollowBonus(cfg, regime, vel_1m) ==
    regime = "high" /\ Abs(vel_1m) > cfg.TREND_FOLLOW_VELOCITY

YesScoreDecaysWithEdge(edge, cfg, regime, velocity, time_factor) ==
    IF edge >= min_edge(cfg, regime)
    THEN ((100 - edge)
          + (IF velocity.direction_1m > 0
             THEN 10 + (IF TrendFollowBonus(cfg, regime, velocity.velocity_1m)
                        THEN 5 ELSE 0)
             ELSE 0)) * time_factor
    ELSE 0

\* yes_score (agent.py 132-139), times CONF_DEN
yes_score(edge, cfg, regime, velocity, time_factor) ==
    IF edge >= min_edge(cfg, regime)
    THEN (edge
          + (IF velocity.direction_1m > 0
             THEN 10 + (IF TrendFollowBonus(cfg, regime, velocity.velocity_1m)
                        THEN 5 ELSE 0)
             ELSE 0)) * time_factor
    ELSE 0

\* no_score (agent.py 142-149), times CONF_DEN
no_score(edge, cfg, regime, velocity, time_factor) ==
    IF edge >= min_edge(cfg, regime)
    THEN (edge
          + (IF velocity.direction_1m < 0
             THEN 10 + (IF TrendFollowBonus(cfg, regime, velocity.velocity_1m)
                        THEN 5 ELSE 0)
             ELSE 0)) * time_factor
    ELSE 0

\* potential_yes_conf / potential_no_conf (agent.py 156-157), times CONF_DEN
potential_conf(edge, time_factor) ==
    IF edge > 0 THEN Min(CONF_CAP, CONF_BASE + Max(0, edge) * time_factor) ELSE 0

ConfidenceUnclamped(score) == CONF_BASE + score

\* confidence = min(0.95, 0.45 + score) (agent.py 162, 167), times CONF_DEN
Confidence(score) == Min(CONF_CAP, CONF_BASE + score)

(***************************************************************************)
(* Reasoning parts.                                                        *)
(***************************************************************************)
Part(tag, s, x, y, z) == [tag |-> tag, s |-> s, x |-> x, y |-> y, z |-> z]

\* the five parts appended at agent.py 101-106 (the dist= figure of the
\* Time part is not carried)
BaseReasons(secs_left, fv, vol, velocity, tf) ==
    << Part("BTC", IF fv.btc_vs_strike > 0 THEN "above" ELSE "below",
            Abs(fv.btc_vs_strike), 0, 0),
       Part("Fair", "", fv.fair_yes_cents, fv.fair_yes_prob, 0),
       Part("Vol", vol.regime, vol.vol_dollar_per_min, 0, 0),
       Part("Trend", "", velocity.price_change_1m, 0, 0),
       Part("Time", "", secs_left, tf.yes, tf.no) >>

\* the two parts appended at agent.py 118-119
EdgeReasons(fair_yes_cents, best_bid, best_ask) ==
    << Part("YES edge", "", yes_edge(fair_yes_cents, best_ask),
            fair_yes_cents, yes_cost(best_ask)),
       Part("NO edge", "", no_edge(fair_yes_cents, best_bid),
            100 - fair_yes_cents, no_cost(best_bid)) >>

\* the calls made on the provider at agent.py 51, 57, 61
ProviderCalls(strike, secs_left) ==
    << [fn |-> "get_fair_value", strike |-> strike, secs_left |-> secs_left],
       [fn |-> "get_volatility"],
       [fn |-> "get_price_velocity"] >>

\* _hold(reasoning, confidence) up to the construction of result (agent.py 196)
HoldResult(path, reasoning, confidence, calls, locals, rounded) ==
    [via |-> "_hold", path |-> path, decision |-> "HOLD",
     confidence |-> confidence, reasoning |-> reasoning,
     calls |-> calls, locals |-> locals, rounded |-> rounded]

(***************************************************************************)
(* Float comparisons on equal exact values.  fl.tie is how yes_score and   *)
(* no_score compare ("yes": yes_score greater, "no": no_score greater,     *)
(* "equal"), fl.gate whether confidence < RULE_MIN_CONFIDENCE ("below") or *)
(* not ("not_below").                                                      *)
(***************************************************************************)
TieOutcomes == {"yes", "no", "equal"}
GateOutcomes == {"below", "not_below"}

\* both scores come from the same float expression on the same operands
SameExpression(ye, ne, velocity, tf) ==
    ye = ne /\ velocity.direction_1m = 0 /\ tf.yes = tf.no

GreaterOrEqual(s1, s2, same, outcome) == s1 >= s2

\* yes_score > no_score (agent.py 160) and no_score > yes_score (agent.py 165)
Greater(s1, s2, same, outcome) ==
    IF s1 = s2 /\ ~same THEN outcome ELSE s1 > s2

GateOff(confidence, cfg, fl) == FALSE

\* confidence < config.RULE_MIN_CONFIDENCE (agent.py 175)
GateBlocks(confidence, cfg, fl) ==
    IF confidence = cfg.RULE_MIN_CONFIDENCE * TF_DEN
    THEN fl.gate = "below"
    ELSE confidence < cfg.RULE_MIN_CONFIDENCE * TF_DEN

(***************************************************************************)
(* Scoring, arbitration and the confidence gate (agent.py 112-183), for a  *)
(* call that passed the guard and the low-vol sit-out.                     *)
(***************************************************************************)
ScoreAndGate(md, alpha_monitor, cfg, fl, calls, tf, reasons5) ==
    LET best_bid == Get(md.best_bid, 0)
        best_ask == Get(md.best_ask, 100)
        fair == alpha_monitor.fv.fair_yes_cents
        regime == alpha_monitor.vol.regime
        velocity == alpha_monitor.velocity
        ye == yes_edge(fair, best_ask)
        ne == no_edge(fair, best_bid)
        reasons7 == reasons5 \o EdgeReasons(fair, best_bid, best_ask)
        ys == yes_score(ye, cfg, regime, velocity, tf.yes)
        ns == no_score(ne, cfg, regime, velocity, tf.no)
        best_potential == Max(potential_conf(ye, tf.yes), potential_conf(ne, tf.no))
        same == SameExpression(ye, ne, velocity, tf)
        decision == IF Greater(ys, ns, same, fl.tie = "yes") /\ ys > 0 THEN "BUY_YES"
                    ELSE IF Greater(ns, ys, same, fl.tie = "no") /\ ns > 0 THEN "BUY_NO"
                    ELSE "HOLD"
        confidence == IF decision = "BUY_YES" THEN Confidence(ys)
                      ELSE IF decision = "BUY_NO" THEN Confidence(ns)
                      ELSE 0
        locals == [yes_time_factor |-> tf.yes, no_time_factor |-> tf.no,
                   yes_edge |-> ye, no_edge |-> ne,
                   min_edge |-> min_edge(cfg, regime),
                   yes_score |-> ys, no_score |-> ns,
                   winner |-> decision]
        rounded == [tie |-> ys = ns /\ ys > 0 /\ ~same,
                    gate |-> decision # "HOLD"
                             /\ confidence = cfg.RULE_MIN_CONFIDENCE * TF_DEN]
        reasons8 ==
            IF decision = "BUY_YES"
            THEN Append(reasons7,
                        Part("-> BUY YES",
                             IF velocity.direction_1m > 0 THEN "trend OK" ELSE "",
                             ys, ye, 0))
            ELSE Append(reasons7,
                        Part("-> BUY NO",
                             IF velocity.direction_1m < 0 THEN "trend OK" ELSE "",
                             ns, ne, 0))
    IN  IF decision = "HOLD"
        THEN HoldResult("noedge", <<Part("No edge.", "", 0, 0, 0)>> \o reasons7,
                        best_potential, calls, locals, rounded)
        ELSE IF GateBlocks(confidence, cfg, fl)
        THEN HoldResult("gate",
                        <<Part("Low confidence", "", confidence, 0, 0)>> \o reasons8,
                        confidence, calls, locals, rounded)
        ELSE [via |-> "emit", path |-> "trade", decision |-> decision,
              confidence |-> confidence, reasoning |-> reasons8,
              calls |-> calls, locals |-> locals, rounded |-> rounded]

NotRounded == [tie |-> FALSE, gate |-> FALSE]

AnalyzeMarketCarriesOver(self, md, alpha_monitor, cfg, fl) ==
    LET strike == Get(md.strike_price, 0)
        secs_left == Get(md.seconds_to_close, 0)
    IN  IF GuardFails(alpha_monitor, strike)
        THEN HoldResult("guard",
                        <<Part("No strike price or alpha data available", "", 0, 0, 0)>>,
                        IF self = None THEN 0 ELSE self.confidence, <<>>, <<>>,
                        NotRounded)
        ELSE
        LET fv == alpha_monitor.fv
            vol == alpha_monitor.vol
            tf == TimeFactors(fv.btc_vs_strike, vol, secs_left)
            calls == ProviderCalls(strike, secs_left)
            reasons5 == BaseReasons(secs_left, fv, vol, alpha_monitor.velocity, tf)
        IN  IF SitOut(cfg, vol.regime)
            THEN HoldResult("lowvol",
                            <<Part("Low vol - sitting out.", "", 0, 0, 0)>> \o reasons5,
                            0, calls,
                            [yes_time_factor |-> tf.yes, no_time_factor |-> tf.no],
                            NotRounded)
            ELSE ScoreAndGate(md, alpha_monitor, cfg, fl, calls, tf, reasons5)

AnalyzeMarketEdgesFirst(self, md, alpha_monitor, cfg, fl) ==
    LET strike == Get(md.strike_price, 0)
        secs_left == Get(md.seconds_to_close, 0)
    IN  IF GuardFails(alpha_monitor, strike)
        THEN HoldResult("guard",
                        <<Part("No strike price or alpha data available", "", 0, 0, 0)>>,
                        0, <<>>, <<>>, NotRounded)
        ELSE
        LET fv == alpha_monitor.fv
            vol == alpha_monitor.vol
            tf == TimeFactors(fv.btc_vs_strike, vol, secs_left)
            calls == ProviderCalls(strike, secs_left)
            reasons5 == BaseReasons(secs_left, fv, vol, alpha_monitor.velocity, tf)
        IN  IF SitOut(cfg, vol.regime)
            THEN HoldResult("lowvol",
                            <<Part("Low vol - sitting out.", "", 0, 0, 0)>> \o reasons5
                                \o EdgeReasons(fv.fair_yes_cents, Get(md.best_bid, 0),
                                               Get(md.best_ask, 100)),
                            0, calls,
                            [yes_time_factor |-> tf.yes, no_time_factor |-> tf.no],
                            NotRounded)
            ELSE ScoreAndGate(md, alpha_monitor, cfg, fl, calls, tf, reasons5)

(***************************************************************************)
(* analyze_market up to the point where last_decision is assigned          *)
(* (agent.py 42-183, and 194-196 on the paths through _hold).  self is the *)
(* agent's last_decision field on entry, fl the float outcomes on equal    *)
(* exact values.  The result carries the locals the call computed, the     *)
(* calls it made on the provider and which of fl it consulted.             *)
(***************************************************************************)
AnalyzeMarket(self, md, alpha_monitor, cfg, fl) ==
    LET strike == Get(md.strike_price, 0)
        secs_left == Get(md.seconds_to_close, 0)
    IN  IF GuardFails(alpha_monitor, strike)
        THEN HoldResult("guard",
                        <<Part("No strike price or alpha data available", "", 0, 0, 0)>>,
                        0, <<>>, <<>>, NotRounded)
        ELSE
        LET fv == alpha_monitor.fv
            vol == alpha_monitor.vol
            tf == TimeFactors(fv.btc_vs_strike, vol, secs_left)
            calls == ProviderCalls(strike, secs_left)
            reasons5 == BaseReasons(secs_left, fv, vol, alpha_monitor.velocity, tf)
        IN  IF SitOut(cfg, vol.regime)
            THEN HoldResult("lowvol",
                            <<Part("Low vol - sitting out.", "", 0, 0, 0)>> \o reasons5,
                            0, calls,
                            [yes_time_factor |-> tf.yes, no_time_factor |-> tf.no],
                            NotRounded)
            ELSE ScoreAndGate(md, alpha_monitor, cfg, fl, calls, tf, reasons5)

\* the dict built at agent.py 179-183 and 196
DecisionOf(o) ==
    [decision |-> o.decision, confidence |-> o.confidence, reasoning |-> o.reasoning]

AssignFieldByField(self, o) ==
    IF self = None THEN DecisionOf(o)
    ELSE [self EXCEPT !.decision = o.decision, !.confidence = o.confidence]

\* self.last_decision = {...} (agent.py 179) and self.last_decision = result
\* (agent.py 197): the value of the field after the store, self being its
\* value before
AssignLastDecision(self, o) == DecisionOf(o)

(***************************************************************************)
(* Inputs.  market_data, the values the alpha provider returns and the     *)
(* configuration are drawn from grids; the counts below bound the grids.   *)
(***************************************************************************)
NumSecs == 4
NumAsks == 3

Prefix(grid, n) == {grid[i] : i \in 1..Min(n, Len(grid))}

SecsGrid == <<10, 800, 0, 1000, 450, -5>>
PriceGrid == <<0, 45, 100, 60, 40, 52>>

Regimes == {"low", "medium", "high"}

MarketData(Strikes, Secs, Bids, Asks) ==
    [strike_price : Strikes, seconds_to_close : {<<t>> : t \in Secs},
     best_bid : {<<p>> : p \in Bids}, best_ask : {<<p>> : p \in Asks},
     ticker : {<<"KXBTC15M-1">>}]

\* the provider reports fair_yes_prob (in percent) consistent with fair_yes_cents
FairValues(Fairs, Distances) ==
    {[fair_yes_cents |-> f, fair_yes_prob |-> f, btc_vs_strike |-> d] :
        f \in Fairs, d \in Distances}

Volatilities(Rs, Vols) == [regime : Rs, vol_dollar_per_min : Vols]

\* velocity_1m in tenths of $/s, with its sign as direction_1m
Velocities(Vels) ==
    {[velocity_1m |-> v,
      direction_1m |-> IF v > 0 THEN 1 ELSE IF v < 0 THEN -1 ELSE 0,
      price_change_1m |-> 6 * v] : v \in Vels}

Monitors(FVs, Vs, Ws) ==
    {[present |-> TRUE, fv |-> f, vol |-> v, velocity |-> w] :
        f \in FVs, v \in Vs, w \in Ws}

\* values inside the ranges of TUNABLE_FIELDS (config.py 138-141)
Configs(Edges, SitOuts, Confs, Tfvs) ==
    [MIN_EDGE_CENTS : Edges, RULE_SIT_OUT_LOW_VOL : SitOuts,
     RULE_MIN_CONFIDENCE : Confs, TREND_FOLLOW_VELOCITY : Tfvs]

\* the defaults of config.py 96-99
DefaultConfig ==
    [MIN_EDGE_CENTS |-> 3, RULE_SIT_OUT_LOW_VOL |-> TRUE,
     RULE_MIN_CONFIDENCE |-> 60, TREND_FOLLOW_VELOCITY |-> 20]

\* the grid of the single-call specification
GridMarketData ==
    MarketData({<<50000>>}, Prefix(SecsGrid, NumSecs),
               {0, 45, 100}, Prefix(PriceGrid, NumAsks))
    \cup MarketData({<<>>, <<0>>, <<-1>>}, {800}, {40}, {45})
GridMonitors ==
    Monitors(FairValues({20, 55, 100}, {-2000, -120, 120, 2000}),
             Volatilities(Regimes, {30, 400}),
             Velocities({-30, 10}))
    \cup {NoMonitor}
GridConfigs == Configs({1, 3, 30}, BOOLEAN, {30, 60}, {20})

\* the scenarios of the multi-call specification; in the crossed book
\* (bid 60, ask 40) with fair value 45 the two scores are equal
ScenarioMarketData ==
    MarketData({<<50000>>}, {800}, {40}, {45})
    \cup MarketData({<<50000>>}, {800}, {60}, {40})
ScenarioMonitors ==
    Monitors(FairValues({20, 45, 55}, {30}),
             Volatilities({"low", "medium"}, {250}),
             Velocities({10}))
    \cup {NoMonitor}
ScenarioConfigs ==
    {DefaultConfig,
     [DefaultConfig EXCEPT !.RULE_SIT_OUT_LOW_VOL = FALSE, !.RULE_MIN_CONFIDENCE = 95]}

(***************************************************************************)
(* Runtime configuration (config.py 113-198).                              *)
(*                                                                         *)
(* A Python value handed to set_tunables is a record tagged with its type. *)
(* A finite float is the fraction num/den; in config, in the returned map  *)
(* and in TUNABLE_FIELDS a float tunable is held in the unit of the config *)
(* record (1/den of the tunable: hundredths for RULE_MIN_CONFIDENCE,       *)
(* tenths for TREND_FOLLOW_VELOCITY).  A string is the sequence of its     *)
(* characters.  Number syntax is decimal, without exponent or underscores. *)
(***************************************************************************)
PyInt(n) == [type |-> "int", n |-> n]
PyFloat(num, den) == [type |-> "float", kind |-> "finite", num |-> num, den |-> den]
PyInf == [type |-> "float", kind |-> "inf", num |-> 0, den |-> 1]
PyNegInf == [type |-> "float", kind |-> "-inf", num |-> 0, den |-> 1]
PyNaN == [type |-> "float", kind |-> "nan", num |-> 0, den |-> 1]
PyStr(chars) == [type |-> "str", s |-> chars]
PyBool(b) == [type |-> "bool", b |-> b]
PyNone == [type |-> "NoneType"]

\* the entries of TUNABLE_FIELDS for the values analyze_market reads
\* (config.py 138-141); min and max in the unit 1/den
TUNABLE_FIELDS ==
    [MIN_EDGE_CENTS |-> [type |-> "int", min |-> 1, max |-> 30, den |-> 1],
     TREND_FOLLOW_VELOCITY |-> [type |-> "float", min |-> 5, max |-> 200, den |-> 10],
     RULE_SIT_OUT_LOW_VOL |-> [type |-> "bool", min |-> 0, max |-> 1, den |-> 1],
     RULE_MIN_CONFIDENCE |-> [type |-> "float", min |-> 30, max |-> 95, den |-> 100]]

TunableKeys == DOMAIN TUNABLE_FIELDS

(***************************************************************************)
(* Characters, str() and the parsers int() and float().                    *)
(***************************************************************************)
Digits == <<"0", "1", "2", "3", "4", "5", "6", "7", "8", "9">>
IsDigit(c) == \E d \in 1..10 : Digits[d] = c
DigitVal(c) == (CHOOSE d \in 1..10 : Digits[d] = c) - 1

Upper == <<"A", "E", "F", "I", "L", "N", "O", "R", "S", "T", "U", "Y">>
Lower == <<"a", "e", "f", "i", "l", "n", "o", "r", "s", "t", "u", "y">>

\* str.lower(), character by character
LowerChar(c) ==
    IF \E i \in 1..Len(Upper) : Upper[i] = c
    THEN Lower[CHOOSE i \in 1..Len(Upper) : Upper[i] = c]
    ELSE c
ToLower(s) == [i \in 1..Len(s) |-> LowerChar(s[i])]

RECURSIVE StrNat(_)
StrNat(n) ==
    IF n < 10 THEN <<Digits[n + 1]>>
    ELSE StrNat(n \div 10) \o <<Digits[(n % 10) + 1]>>

\* str(n) of an int
StrInt(n) == IF n < 0 THEN <<"-">> \o StrNat(-n) ELSE StrNat(n)

\* the digits of f/den after the point, den a power of ten
RECURSIVE FracDigits(_, _)
FracDigits(f, den) ==
    IF den = 1 THEN <<>>
    ELSE <<Digits[(f \div (den \div 10)) + 1]>>
         \o FracDigits(f % (den \div 10), den \div 10)

RECURSIVE TrimZeros(_)
TrimZeros(s) ==
    IF Len(s) > 1 /\ s[Len(s)] = "0" THEN TrimZeros(SubSeq(s, 1, Len(s) - 1)) ELSE s

\* str(x) of the finite float x = num/den: the shortest decimal, with at
\* least one digit after the point
StrFloat(num, den) ==
    (IF num < 0 THEN <<"-">> ELSE <<>>)
    \o StrNat(Abs(num) \div den) \o <<".">>
    \o (IF den = 1 THEN <<"0">> ELSE TrimZeros(FracDigits(Abs(num) % den, den)))

\* str(value) of a Python value
StrOf(value) ==
    CASE value.type = "str" -> value.s
      [] value.type = "int" -> StrInt(value.n)
      [] value.type = "bool" ->
            IF value.b THEN <<"T", "r", "u", "e">> ELSE <<"F", "a", "l", "s", "e">>
      [] value.type = "NoneType" -> <<"N", "o", "n", "e">>
      [] value.type = "float" ->
            CASE value.kind = "finite" -> StrFloat(value.num, value.den)
              [] value.kind = "inf" -> <<"i", "n", "f">>
              [] value.kind = "-inf" -> <<"-", "i", "n", "f">>
              [] value.kind = "nan" -> <<"n", "a", "n">>

\* str.strip() of blanks
RECURSIVE Strip(_)
Strip(s) ==
    IF s # <<>> /\ s[1] = " " THEN Strip(Tail(s))
    ELSE IF s # <<>> /\ s[Len(s)] = " " THEN Strip(SubSeq(s, 1, Len(s) - 1))
    ELSE s

AllDigits(s) == \A i \in 1..Len(s) : IsDigit(s[i])

RECURSIVE ParseNat(_)
ParseNat(s) ==
    IF s = <<>> THEN 0
    ELSE 10 * ParseNat(SubSeq(s, 1, Len(s) - 1)) + DigitVal(s[Len(s)])

Ok(v) == [ok |-> TRUE, kind |-> "finite", v |-> v, exc |-> ""]
Special(kind) == [ok |-> TRUE, kind |-> kind, v |-> 0, exc |-> ""]
Raise(exc) == [ok |-> FALSE, kind |-> "", v |-> 0, exc |-> exc]

Unsigned(s) == IF s # <<>> /\ s[1] \in {"+", "-"} THEN Tail(s) ELSE s
SignOf(s) == IF s # <<>> /\ s[1] = "-" THEN -1 ELSE 1

\* int(s) of a string
ParseInt(s) ==
    LET t == Strip(s)
        u == Unsigned(t)
    IN  IF u # <<>> /\ AllDigits(u) THEN Ok(SignOf(t) * ParseNat(u))
        ELSE Raise("ValueError")

PointAt(s) == IF \E i \in 1..Len(s) : s[i] = "."
              THEN CHOOSE i \in 1..Len(s) : s[i] = "." ELSE Len(s) + 1

RECURSIVE FracVal(_, _)
FracVal(s, den) ==
    IF s = <<>> \/ den = 1 THEN 0
    ELSE DigitVal(s[1]) * (den \div 10) + FracVal(Tail(s), den \div 10)

\* float(s) of a string, in the unit 1/den
ParseFloat(s, den) ==
    LET t == Strip(s)
        u == Unsigned(t)
        w == ToLower(u)
        p == PointAt(u)
        ip == SubSeq(u, 1, p - 1)
        fp == SubSeq(u, p + 1, Len(u))
    IN  IF w \in {<<"i", "n", "f">>, <<"i", "n", "f", "i", "n", "i", "t", "y">>}
        THEN Special(IF SignOf(t) < 0 THEN "-inf" ELSE "inf")
        ELSE IF w = <<"n", "a", "n">> THEN Special("nan")
        ELSE IF AllDigits(ip) /\ AllDigits(fp) /\ Len(ip) + Len(fp) > 0
        THEN Ok(SignOf(t) * (ParseNat(ip) * den + FracVal(fp, den)))
        ELSE Raise("ValueError")

(***************************************************************************)
(* The conversions of set_tunables (config.py 168-173).                    *)
(***************************************************************************)
\* int(value): truncation toward zero of a finite float
IntOf(value) ==
    CASE value.type = "int" -> Ok(value.n)
      [] value.type = "bool" -> Ok(IF value.b THEN 1 ELSE 0)
      [] value.type = "str" -> ParseInt(value.s)
      [] value.type = "NoneType" -> Raise("TypeError")
      [] value.type = "float" ->
            CASE value.kind = "finite" ->
                    Ok(IF value.num >= 0 THEN value.num \div value.den
                       ELSE -((-value.num) \div value.den))
              [] value.kind = "nan" -> Raise("ValueError")
              [] OTHER -> Raise("OverflowError")

\* float(value), in the unit 1/den
FloatOf(value, den) ==
    CASE value.type = "int" -> Ok(value.n * den)
      [] value.type = "bool" -> Ok(IF value.b THEN den ELSE 0)
      [] value.type = "str" -> ParseFloat(value.s, den)
      [] value.type = "NoneType" -> Raise("TypeError")
      [] value.type = "float" ->
            IF value.kind = "finite" THEN Ok((value.num * den) \div value.den)
            ELSE Special(value.kind)

\* max(spec["min"], min(spec["max"], x)): min keeps spec["max"] unless
\* x < spec["max"], max keeps spec["min"] unless the result is greater, and
\* every comparison with nan is false
Clamp(spec, x) ==
    CASE x.kind = "finite" -> Max(spec.min, Min(spec.max, x.v))
      [] x.kind = "-inf" -> spec.min
      [] OTHER -> spec.max

\* value if isinstance(value, bool) else str(value).lower() in ("true", "1")
BoolOf(value) ==
    IF value.type = "bool" THEN value.b
    ELSE ToLower(StrOf(value)) \in {<<"t", "r", "u", "e">>, <<"1">>}

\* the converted value of one update, or the exception the conversion raises
Convert(spec, value) ==
    CASE spec.type = "bool" -> Ok(BoolOf(value))
      [] spec.type = "int" ->
            LET x == IntOf(value) IN IF x.ok THEN Ok(Clamp(spec, x)) ELSE x
      [] spec.type = "float" ->
            LET x == FloatOf(value, spec.den) IN IF x.ok THEN Ok(Clamp(spec, x)) ELSE x

\* str(value) of a converted value (config.py 175)
StrConverted(spec, v) ==
    CASE spec.type = "bool" -> StrOf(PyBool(v))
      [] spec.type = "int" -> StrInt(v)
      [] spec.type = "float" -> StrFloat(v, spec.den)

\* except (ValueError, TypeError) (config.py 177, 197)
Caught == {"ValueError", "TypeError"}

(***************************************************************************)
(* set_tunables(updates) (config.py 159-179).  updates is the sequence of  *)
(* the items of the dict, in its order; a dict is a function on the keys   *)
(* it holds.  The keys of the settings store are the tunables' names (the  *)
(* code prefixes them with "config_").                                     *)
(***************************************************************************)
EmptyDict == [key \in {} |-> 0]
Put(dict, key, v) == (key :> v) @@ dict

RECURSIVE SetTunablesFrom(_, _, _, _, _)
SetTunablesFrom(i, updates, cfg, db, applied) ==
    IF i > Len(updates)
    THEN [outcome |-> "returned", config |-> cfg, settings |-> db, applied |-> applied]
    ELSE
    LET key == updates[i].key
        value == updates[i].value
    IN  IF key \notin TunableKeys
        THEN SetTunablesFrom(i + 1, updates, cfg, db, applied)
        ELSE
        LET spec == TUNABLE_FIELDS[key]
            x == Convert(spec, value)
        IN  IF x.ok
            THEN SetTunablesFrom(i + 1, updates,
                                 [cfg EXCEPT ![key] = x.v],
                                 Put(db, key, StrConverted(spec, x.v)),
                                 Put(applied, key, x.v))
            ELSE IF x.exc \in Caught
            THEN SetTunablesFrom(i + 1, updates, cfg, db, applied)
            ELSE [outcome |-> "raised", config |-> cfg, settings |-> db,
                  applied |-> applied]

set_tunables(updates, cfg, db) == SetTunablesFrom(1, updates, cfg, db, EmptyDict)

(***************************************************************************)
(* restore_tunables() (config.py 182-198).                                 *)
(***************************************************************************)
\* the value restored for one key: the attribute is left alone when nothing
\* is saved or the saved text does not parse (a saved text is the str() of a
\* clamped value, so float() of it is finite)
Restored(key, cfg, db) ==
    LET spec == TUNABLE_FIELDS[key] IN
    IF key \notin DOMAIN db THEN cfg[key]
    ELSE CASE spec.type = "bool" -> ToLower(db[key]) \in {<<"t", "r", "u", "e">>, <<"1">>}
           [] spec.type = "int" ->
                 LET x == ParseInt(db[key]) IN IF x.ok THEN x.v ELSE cfg[key]
           [] spec.type = "float" ->
                 LET x == ParseFloat(db[key], spec.den)
                 IN IF x.ok /\ x.kind = "finite" THEN x.v ELSE cfg[key]

restore_tunables(cfg, db) ==
    [MIN_EDGE_CENTS |-> Restored("MIN_EDGE_CENTS", cfg, db),
     RULE_SIT_OUT_LOW_VOL |-> Restored("RULE_SIT_OUT_LOW_VOL", cfg, db),
     RULE_MIN_CONFIDENCE |-> Restored("RULE_MIN_CONFIDENCE", cfg, db),
     TREND_FOLLOW_VELOCITY |-> Restored("TREND_FOLLOW_VELOCITY", cfg, db)]

\* the update maps of the configuration specification: one or two items,
\* on distinct keys
Item(key, Values) == {[key |-> key, value |-> v] : v \in Values}

UpdateItems ==
    Item("MIN_EDGE_CENTS",
         {PyInt(45), PyFloat(127, 10), PyStr(<<"a", "b", "c">>), PyInf})
    \cup Item("RULE_MIN_CONFIDENCE",
              {PyFloat(1, 10), PyNaN, PyStr(<<"0", ".", "4", "5">>), PyNone})
    \cup Item("RULE_SIT_OUT_LOW_VOL", {PyStr(<<"T", "R", "U", "E">>), PyBool(FALSE)})
    \cup Item("NOT_A_TUNABLE", {PyInt(5)})

UpdateMaps ==
    {<<a>> : a \in UpdateItems}
    \cup {m \in {<<a, b>> : a \in UpdateItems, b \in UpdateItems} : m[1].key # m[2].key}

(***************************************************************************)
(* State.                                                                  *)
(***************************************************************************)
VARIABLES
    last_decision,   \* MarketAgent.last_decision
    config,          \* the config values read by analyze_market
    pc,              \* where the current call of analyze_market is
    md,              \* market_data of the current call
    alpha_monitor,   \* what the provider returns in the current call
    frame,           \* what the current call computed
    events,          \* the calls on collaborators made by the current call
    ret,             \* what the current call returned to its caller
    fp,              \* the float outcomes on equal exact values, "?" until met
    earlier,         \* an earlier call, with its inputs and its return value
    settings,        \* the settings store behind set_setting and get_setting
    tcall,           \* the latest set_tunables or restore_tunables call
    applied_values   \* for each key, the value set_tunables applied last

vars == <<last_decision, config, pc, md, alpha_monitor, frame, events, ret, fp, earlier,
          settings, tcall, applied_values>>

agent_vars == <<last_decision, pc, md, alpha_monitor, frame, events, ret, fp, earlier>>
store_vars == <<settings, tcall, applied_values>>

NoCall == [called |-> FALSE]

NoTunablesCall ==
    [op |-> "none", updates |-> <<>>, outcome |-> "none", applied |-> EmptyDict]

\* MarketAgent.__init__ (agent.py 22); config holds its defaults and nothing
\* is saved in the settings store
Init ==
    /\ last_decision = None
    /\ config = DefaultConfig
    /\ pc = "idle"
    /\ md = NoCall
    /\ alpha_monitor = NoMonitor
    /\ frame = NoCall
    /\ events = <<>>
    /\ ret = None
    /\ fp = [tie |-> "?", gate |-> "?"]
    /\ earlier = None
    /\ settings = EmptyDict
    /\ tcall = NoTunablesCall
    /\ applied_values = EmptyDict

AlwaysRecord(via) == "record"

\* the statement after the assignment of last_decision: record_decision on
\* the emitting path (agent.py 185), log_event in _hold (agent.py 198)
AfterAssign(via) == IF via = "_hold" THEN "log" ELSE "record"

\* whether a call with these inputs can meet equal exact values at the score
\* comparison (tie) or at the confidence gate (gate)
MayRound(m, a, c) ==
    IF GuardFails(a, Get(m.strike_price, 0)) \/ SitOut(c, a.vol.regime)
    THEN NotRounded
    ELSE
    LET tf == TimeFactors(a.fv.btc_vs_strike, a.vol, Get(m.seconds_to_close, 0))
        ye == yes_edge(a.fv.fair_yes_cents, Get(m.best_ask, 100))
        ne == no_edge(a.fv.fair_yes_cents, Get(m.best_bid, 0))
        ys == yes_score(ye, c, a.vol.regime, a.velocity, tf.yes)
        ns == no_score(ne, c, a.vol.regime, a.velocity, tf.no)
    IN  [tie |-> ys = ns /\ ys > 0 /\ ~SameExpression(ye, ne, a.velocity, tf),
         gate |-> c.RULE_MIN_CONFIDENCE * TF_DEN \in {Confidence(ys), Confidence(ns)}]

\* the float outcomes a call may meet: what fp holds, or any if not yet known
Roundings(m, a, c) ==
    LET may == MayRound(m, a, c) IN
    [tie : IF fp.tie = "?" /\ may.tie THEN TieOutcomes ELSE {fp.tie},
     gate : IF fp.gate = "?" /\ may.gate THEN GateOutcomes ELSE {fp.gate}]

(***************************************************************************)
(* analyze_market(m, alpha_monitor=a) with the configuration c in force,   *)
(* from its entry to the assignment of self.last_decision                  *)
(* (agent.py 42-183, 196-197).                                             *)
(***************************************************************************)
Begin(m, a, c) ==
    \E fl \in Roundings(m, a, c) :
        LET o == AnalyzeMarket(last_decision, m, a, c, fl) IN
        /\ md' = m
        /\ alpha_monitor' = a
        /\ config' = c
        /\ frame' = [o EXCEPT !.calls = Len(o.calls)] @@ [first |-> last_decision = None]
        /\ last_decision' = AssignLastDecision(last_decision, o)
        /\ events' = Append(o.calls, [fn |-> "set_last_decision"])
        /\ ret' = None
        /\ fp' = [tie |-> IF o.rounded.tie THEN fl.tie ELSE fp.tie,
                  gate |-> IF o.rounded.gate THEN fl.gate ELSE fp.gate]
        /\ pc' = AfterAssign(o.via)
        /\ UNCHANGED <<earlier, store_vars>>

\* a call of the polling loop, after the previous call returned or raised
Call ==
    /\ pc \in {"idle", "done", "raised"}
    /\ \E m \in ScenarioMarketData, a \in ScenarioMonitors, c \in ScenarioConfigs :
          Begin(m, a, c)

\* the first call on a new agent
FirstCall ==
    /\ pc = "idle"
    /\ \E m \in GridMarketData, a \in GridMonitors, c \in GridConfigs :
          Begin(m, a, c)

RecordArgs ==
    [fn |-> "record_decision", market_id |-> Get(md.ticker, "None"),
     decision |-> frame.decision, confidence |-> frame.confidence,
     reasoning |-> frame.reasoning]

\* record_decision(...) returns (agent.py 185-190)
RecordDecision ==
    /\ pc = "record"
    /\ events' = Append(events, RecordArgs)
    /\ pc' = "log"
    /\ UNCHANGED <<last_decision, config, md, alpha_monitor, frame, ret, fp, earlier, store_vars>>

\* record_decision(...) raises: the exception leaves analyze_market
RecordDecisionRaises ==
    /\ pc = "record"
    /\ events' = Append(events, RecordArgs)
    /\ pc' = "raised"
    /\ UNCHANGED <<last_decision, config, md, alpha_monitor, frame, ret, fp, earlier, store_vars>>

LogArgs == [fn |-> "log_event", category |-> "RULES", decision |-> frame.decision]

\* log_event(...) returns and analyze_market returns (agent.py 191-192, 198-199)
LogEvent ==
    /\ pc = "log"
    /\ events' = Append(events, LogArgs)
    /\ ret' = IF frame.via = "_hold" THEN DecisionOf(frame) ELSE last_decision
    /\ pc' = "done"
    /\ UNCHANGED <<last_decision, config, md, alpha_monitor, frame, fp, earlier, store_vars>>

\* log_event(...) raises: the exception leaves analyze_market
LogEventRaises ==
    /\ pc = "log"
    /\ events' = Append(events, LogArgs)
    /\ pc' = "raised"
    /\ UNCHANGED <<last_decision, config, md, alpha_monitor, frame, ret, fp, earlier, store_vars>>

\* observer: keep one returned call, inputs and result, for later comparison
Remember ==
    /\ pc = "done"
    /\ earlier = None
    /\ earlier' = [decision |-> "Some", md |-> md, alpha_monitor |-> alpha_monitor,
                   config |-> config, first |-> frame.first, ret |-> ret]
    /\ UNCHANGED <<last_decision, config, pc, md, alpha_monitor, frame, events, ret, fp, store_vars>>

Emit == RecordDecision \/ RecordDecisionRaises \/ LogEvent \/ LogEventRaises

Next == Call \/ Emit \/ Remember

Spec == Init /\ [][Next]_vars

NextEval == FirstCall \/ Emit

SpecEval == Init /\ [][NextEval]_vars

(***************************************************************************)
(* The configuration surface: set_tunables, restore_tunables, and a        *)
(* restart of the process, after which the module holds its defaults again *)
(* while the settings store keeps what was saved.                          *)
(***************************************************************************)
\* set_tunables(u) (config.py 159-179), returning or raising
SetTunables ==
    \E u \in UpdateMaps :
        LET r == set_tunables(u, config, settings) IN
        /\ config' = r.config
        /\ settings' = r.settings
        /\ tcall' = [op |-> "set_tunables", updates |-> u, outcome |-> r.outcome,
                     applied |-> IF r.outcome = "returned" THEN r.applied ELSE EmptyDict]
        /\ applied_values' = r.applied @@ applied_values
        /\ UNCHANGED agent_vars

\* restore_tunables() (config.py 182-198)
RestoreTunables ==
    /\ config' = restore_tunables(config, settings)
    /\ tcall' = [NoTunablesCall EXCEPT !.op = "restore_tunables", !.outcome = "returned"]
    /\ UNCHANGED <<settings, applied_values, agent_vars>>

\* the module is loaded anew: the defaults of config.py 96-99
Restart ==
    /\ config' = DefaultConfig
    /\ tcall' = [NoTunablesCall EXCEPT !.op = "restart"]
    /\ UNCHANGED <<settings, applied_values, agent_vars>>

NextConfig == SetTunables \/ RestoreTunables \/ Restart

SpecConfig == Init /\ [][NextConfig]_vars

(***************************************************************************)
(* Vocabulary of the properties.                                           *)
(***************************************************************************)
Called == md # NoCall
Returned == pc = "done"
Trades == {"BUY_YES", "BUY_NO"}

Strike == Get(md.strike_price, 0)
SecsLeft == Get(md.seconds_to_close, 0)
BestBid == Get(md.best_bid, 0)
BestAsk == Get(md.best_ask, 100)

\* the current call went past the guard / past the low-vol sit-out
PastGuard == Called /\ frame.path # "guard"
Scored == Called /\ frame.path \notin {"guard", "lowvol"}

Fns(S) == {i \in 1..Len(events) : events[i].fn \in S}
ProviderFns == {"get_fair_value", "get_volatility", "get_price_velocity"}

IsEmission(e) == e.fn \in {"set_last_decision", "record_decision", "log_event"}
Emissions == SelectSeq(events, IsEmission)

InRange(c) == 0 <= c /\ c <= CONF_CAP

(***************************************************************************)
(* C1.  On every path the confidence of last_decision and of the returned  *)
(* Decision lies in [0, 0.95].                                             *)
(***************************************************************************)
C1_ConfidenceInRange ==
    /\ last_decision # None => InRange(last_decision.confidence)
    /\ Returned => InRange(ret.confidence)

\* a BUY_YES whose 0.45 + score exceeded 0.95 and was clamped
C1_Witness ==
    /\ Returned
    /\ ret.decision = "BUY_YES"
    /\ CONF_BASE + frame.locals.yes_score > CONF_CAP
    /\ ret.confidence = CONF_CAP

(***************************************************************************)
(* C2.  With no provider, or a missing, zero or negative strike, the       *)
(* decision is HOLD with confidence 0 and the fixed reason; no provider    *)
(* method and no record_decision is called.                                *)
(***************************************************************************)
GuardCase ==
    /\ Called
    /\ \/ ~alpha_monitor.present
       \/ md.strike_price = <<>>
       \/ md.strike_price # <<>> /\ md.strike_price[1] <= 0

FixedReason == <<Part("No strike price or alpha data available", "", 0, 0, 0)>>

C2_GuardHolds ==
    GuardCase =>
        /\ last_decision =
              [decision |-> "HOLD", confidence |-> 0, reasoning |-> FixedReason]
        /\ Fns(ProviderFns \cup {"record_decision"}) = {}
        /\ pc # "record"
        /\ Returned => ret = last_decision

\* a provider is there but the strike is negative, and the call returned
C2_Witness ==
    /\ Returned
    /\ alpha_monitor.present
    /\ md.strike_price = <<-1>>
    /\ ret.decision = "HOLD"

(***************************************************************************)
(* C3.  With the sit-out flag set and regime "low" the decision is HOLD    *)
(* whatever the edge, and record_decision is not called.                   *)
(***************************************************************************)
LowVolCase ==
    /\ Called
    /\ alpha_monitor.present
    /\ config.RULE_SIT_OUT_LOW_VOL
    /\ alpha_monitor.vol.regime = "low"

C3_LowVolSitsOut ==
    LowVolCase =>
        /\ last_decision.decision = "HOLD"
        /\ Fns({"record_decision"}) = {}
        /\ pc # "record"
        /\ Returned => ret.decision = "HOLD"

\* sit-out with a 55 cent YES edge, past the guard
C3_Witness ==
    /\ Returned
    /\ LowVolCase
    /\ Strike > 0
    /\ yes_edge(alpha_monitor.fv.fair_yes_cents, BestAsk) >= 55
    /\ ret.decision = "HOLD"

(***************************************************************************)
(* C4.  Ten seconds before the close, with the underlying above the strike *)
(* and distance_ratio > 1.5, the decision is never BUY_NO.                 *)
(***************************************************************************)
NearExpiryFarAbove ==
    /\ PastGuard
    /\ SecsLeft = 10
    /\ alpha_monitor.fv.btc_vs_strike > 0
    /\ DistanceRatioAbove(3, alpha_monitor.fv.btc_vs_strike, alpha_monitor.vol, SecsLeft)

C4_NeverBuyNo ==
    NearExpiryFarAbove =>
        /\ last_decision.decision # "BUY_NO"
        /\ Returned => ret.decision # "BUY_NO"

(***************************************************************************)
(* C5.  A failure of record_decision or of log_event does not fail the     *)
(* decision: analyze_market raises nothing to its caller.                  *)
(***************************************************************************)
C5_NeverRaises == pc # "raised"

(***************************************************************************)
(* C6.  A call that returns BUY_YES or BUY_NO has assigned last_decision,  *)
(* then called record_decision once with its contract id, decision,        *)
(* confidence and reasoning, then log_event once; a call that returns HOLD *)
(* has assigned last_decision and called log_event once, and on a path to  *)
(* HOLD record_decision is never called.                                   *)
(***************************************************************************)
C6_Emission ==
    /\ Returned /\ ret.decision \in Trades =>
          /\ Len(Emissions) = 3
          /\ Emissions[1].fn = "set_last_decision"
          /\ Emissions[2] =
                [fn |-> "record_decision", market_id |-> Get(md.ticker, "None"),
                 decision |-> ret.decision, confidence |-> ret.confidence,
                 reasoning |-> ret.reasoning]
          /\ Emissions[3].fn = "log_event"
    /\ Returned /\ ret.decision = "HOLD" =>
          /\ Len(Emissions) = 2
          /\ Emissions[1].fn = "set_last_decision"
          /\ Emissions[2].fn = "log_event"
    /\ Called /\ last_decision.decision = "HOLD" =>
          /\ Fns({"record_decision"}) = {}
          /\ pc # "record"

\* a trade returned by a call that was not the first on the agent
C6_Witness ==
    /\ Returned
    /\ ret.decision \in Trades
    /\ ~frame.first
    /\ Len(Emissions) = 3

(***************************************************************************)
(* C7.  If btc_vs_strike > 0 then yes_time_factor >= no_time_factor, and   *)
(* if btc_vs_strike < 0 then no_time_factor >= yes_time_factor.            *)
(***************************************************************************)
C7_DirectionalConsistency ==
    PastGuard =>
        /\ alpha_monitor.fv.btc_vs_strike > 0 =>
              frame.locals.yes_time_factor >= frame.locals.no_time_factor
        /\ alpha_monitor.fv.btc_vs_strike < 0 =>
              frame.locals.no_time_factor >= frame.locals.yes_time_factor

\* below the strike, near-certain, mid-window: NO boosted above 1, YES cut
C7_Witness ==
    /\ PastGuard
    /\ alpha_monitor.fv.btc_vs_strike < 0
    /\ DistanceRatioAbove(3, alpha_monitor.fv.btc_vs_strike, alpha_monitor.vol, SecsLeft)
    /\ frame.locals.no_time_factor > TF_DEN
    /\ frame.locals.yes_time_factor < TF_DEN
    /\ frame.locals.yes_time_factor > 0

(***************************************************************************)
(* C8.  With everything but best_ask fixed, a lower best_ask never gives a *)
(* lower yes_score, also across the minimum-edge threshold.                *)
(***************************************************************************)
\* the yes_score of the current call had its best_ask been a
YesScoreAt(a) ==
    yes_score(yes_edge(alpha_monitor.fv.fair_yes_cents, a), config,
              alpha_monitor.vol.regime, alpha_monitor.velocity,
              frame.locals.yes_time_factor)

OtherAsks == Prefix(PriceGrid, Len(PriceGrid))

C8_YesScoreMonotone ==
    Scored =>
        \A a \in OtherAsks :
            /\ a <= BestAsk => YesScoreAt(a) >= frame.locals.yes_score
            /\ a >= BestAsk => YesScoreAt(a) <= frame.locals.yes_score

\* a positive yes_score that a higher ask would put below the threshold and
\* a lower ask would raise
C8_Witness ==
    /\ Scored
    /\ frame.locals.yes_score > 0
    /\ \E a \in OtherAsks : a > BestAsk /\ YesScoreAt(a) = 0
    /\ \E a \in OtherAsks : a < BestAsk /\ YesScoreAt(a) > frame.locals.yes_score

(***************************************************************************)
(* C9.  Two calls with the same market data, the same provider values and  *)
(* the same configuration return the same decision, confidence and         *)
(* reasoning, whatever last_decision was on entry.                         *)
(***************************************************************************)
SameInputsAsEarlier ==
    /\ Returned
    /\ earlier # None
    /\ earlier.md = md
    /\ earlier.alpha_monitor = alpha_monitor
    /\ earlier.config = config

C9_Deterministic == SameInputsAsEarlier => ret = earlier.ret

\* the earlier call was the first on the agent (last_decision None on entry),
\* this one followed a trade; both went through scoring
C9_Witness ==
    /\ SameInputsAsEarlier
    /\ earlier.first
    /\ ~frame.first
    /\ Scored
    /\ ret.decision = "BUY_NO"

(***************************************************************************)
(* C10.  When a side wins scoring, confidence = min(0.95, 0.45 + winning   *)
(* score); below the configured minimum the decision is HOLD with that     *)
(* confidence and record_decision is not called; a BUY_YES or BUY_NO has   *)
(* confidence >= the configured minimum and >= 0.45.                       *)
(***************************************************************************)
\* the branch taken at agent.py 160-172
SideWins == Scored /\ frame.locals.winner \in Trades
WinningScore ==
    IF frame.locals.winner = "BUY_YES"
    THEN frame.locals.yes_score ELSE frame.locals.no_score
MinConfidence == config.RULE_MIN_CONFIDENCE * TF_DEN

C10_ConfidenceGate ==
    /\ SideWins =>
          /\ last_decision.confidence = Min(CONF_CAP, CONF_BASE + WinningScore)
          /\ last_decision.confidence < MinConfidence =>
                /\ last_decision.decision = "HOLD"
                /\ Fns({"record_decision"}) = {}
                /\ pc # "record"
          /\ Returned => ret = last_decision
    /\ Called /\ last_decision.decision \in Trades =>
          /\ last_decision.confidence >= MinConfidence
          /\ last_decision.confidence >= CONF_BASE

\* a side won but the call returned HOLD with the winner's confidence
C10_Witness ==
    /\ Returned
    /\ SideWins
    /\ ret.decision = "HOLD"
    /\ ret.confidence = CONF_BASE + WinningScore
    /\ ret.confidence < MinConfidence

(***************************************************************************)
(* C11.  Before the first call last_decision is None; afterwards it is one *)
(* complete Decision whose decision, confidence and reasoning come from    *)
(* the same evaluation; it changes only by the single store of a call, to  *)
(* the whole Decision of that call, so every state shows the previous      *)
(* Decision or the new one; and once a call has returned, last_decision is *)
(* the Decision it returned, HOLD or not.                                  *)
(***************************************************************************)
DecisionFields == {"decision", "confidence", "reasoning"}

C11_State ==
    /\ ~Called => last_decision = None
    /\ Called =>
          /\ DOMAIN last_decision = DecisionFields
          /\ last_decision = DecisionOf(frame)
    /\ Returned => ret = last_decision

\* the field changes only in the step that enters a call, and then to the
\* Decision that call computed
C11_Swap ==
    last_decision' # last_decision =>
        /\ pc \in {"idle", "done", "raised"}
        /\ pc' \in {"record", "log"}
        /\ last_decision' = DecisionOf(frame')

C11_LastDecision == C11_State /\ [][C11_State' /\ C11_Swap]_vars

\* a HOLD returned after an earlier call returned a trade: the field holds
\* the HOLD in full, nothing of the trade
C11_Witness ==
    /\ Returned
    /\ earlier # None
    /\ earlier.ret.decision \in Trades
    /\ ~frame.first
    /\ ret.decision = "HOLD"
    /\ ret.reasoning # earlier.ret.reasoning
    /\ last_decision = ret

(***************************************************************************)
(* C12.  A side whose edge is below the effective minimum edge scores 0;   *)
(* the result is BUY_YES only if yes_score > no_score and yes_score > 0,   *)
(* BUY_NO only if no_score > yes_score and no_score > 0, and HOLD when the *)
(* scores are equal or neither is positive; so a BUY_YES has yes_edge >=   *)
(* the effective minimum edge and a BUY_NO has no_edge >= it.  The scores  *)
(* are compared as the code compares them: where the exact values are      *)
(* equal and the call consulted the float outcome, that outcome (fp.tie)   *)
(* is the order of the two floats.                                         *)
(***************************************************************************)
YesEdge == yes_edge(alpha_monitor.fv.fair_yes_cents, BestAsk)
NoEdge == no_edge(alpha_monitor.fv.fair_yes_cents, BestBid)
EffectiveMinEdge == min_edge(config, alpha_monitor.vol.regime)

YesScoreGreater ==
    IF frame.rounded.tie THEN fp.tie = "yes"
    ELSE frame.locals.yes_score > frame.locals.no_score
NoScoreGreater ==
    IF frame.rounded.tie THEN fp.tie = "no"
    ELSE frame.locals.no_score > frame.locals.yes_score
ScoresEqual == ~YesScoreGreater /\ ~NoScoreGreater

C12_Arbitration ==
    Scored =>
        /\ YesEdge < EffectiveMinEdge => frame.locals.yes_score = 0
        /\ NoEdge < EffectiveMinEdge => frame.locals.no_score = 0
        /\ last_decision.decision = "BUY_YES" =>
              /\ YesScoreGreater
              /\ frame.locals.yes_score > 0
              /\ YesEdge >= EffectiveMinEdge
        /\ last_decision.decision = "BUY_NO" =>
              /\ NoScoreGreater
              /\ frame.locals.no_score > 0
              /\ NoEdge >= EffectiveMinEdge
        /\ \/ ScoresEqual
           \/ frame.locals.yes_score <= 0 /\ frame.locals.no_score <= 0
           => last_decision.decision = "HOLD"
        /\ Returned => ret.decision = last_decision.decision

\* both sides clear the threshold with equal positive scores, and the call
\* returned HOLD through the no-edge branch
C12_Witness ==
    /\ Scored
    /\ Returned
    /\ YesEdge >= EffectiveMinEdge
    /\ NoEdge >= EffectiveMinEdge
    /\ frame.locals.yes_score > 0
    /\ ScoresEqual
    /\ frame.path = "noedge"
    /\ ret.decision = "HOLD"

(***************************************************************************)
(* C13.  As claimed: on the low-volatility sit-out HOLD the reasoning      *)
(* holds the YES-edge and NO-edge lines and the trend line besides the     *)
(* distance, fair-value, volatility and time lines.                        *)
(***************************************************************************)
SatOut == Called /\ frame.path = "lowvol"
Tags(reasoning) == [i \in 1..Len(reasoning) |-> reasoning[i].tag]
TagSet(reasoning) == {reasoning[i].tag : i \in 1..Len(reasoning)}
EdgeTags == {"YES edge", "NO edge"}

C13_EdgeLinesInSitOut ==
    SatOut =>
        /\ EdgeTags \cup {"Trend", "BTC", "Fair", "Vol", "Time"}
              \subseteq TagSet(last_decision.reasoning)
        /\ Returned => EdgeTags \subseteq TagSet(ret.reasoning)

(***************************************************************************)
(* C13, amended.  On the low-volatility sit-out HOLD the reasoning is the  *)
(* sit-out notice followed by the distance, fair-value, volatility, trend  *)
(* and time lines, the trend line carrying the provider's one-minute price *)
(* change, and it holds no YES-edge or NO-edge line; the returned Decision *)
(* carries the same reasoning.                                             *)
(***************************************************************************)
C13_SitOutTrace ==
    SatOut =>
        /\ Tags(last_decision.reasoning) =
              <<"Low vol - sitting out.", "BTC", "Fair", "Vol", "Trend", "Time">>
        /\ last_decision.reasoning[5].x = alpha_monitor.velocity.price_change_1m
        /\ TagSet(last_decision.reasoning) \cap EdgeTags = {}
        /\ Returned => ret.reasoning = last_decision.reasoning

\* a sit-out that returned although the YES side had an edge above the
\* configured minimum: the trace has the trend line and no edge line
C13_Witness ==
    /\ SatOut
    /\ Returned
    /\ YesEdge >= config.MIN_EDGE_CENTS
    /\ "Trend" \in TagSet(ret.reasoning)
    /\ "YES edge" \notin TagSet(ret.reasoning)

(***************************************************************************)
(* C14.  For every MIN_EDGE_CENTS in 1..30 the effective minimum edge      *)
(* under regime "high" is at most the configured minimum, so a side whose  *)
(* edge meets the threshold under "medium" meets it under "high".          *)
(***************************************************************************)
HighVol == Scored /\ alpha_monitor.vol.regime = "high"

C14_HighVolOnlyRelaxes ==
    HighVol =>
        /\ config.MIN_EDGE_CENTS \in 1..30
        /\ frame.locals.min_edge <= config.MIN_EDGE_CENTS
        /\ YesEdge >= min_edge(config, "medium") => YesEdge >= frame.locals.min_edge
        /\ NoEdge >= min_edge(config, "medium") => NoEdge >= frame.locals.min_edge

(***************************************************************************)
(* C15.  After any sequence of set_tunables calls every int or float       *)
(* tunable a call applied is inside its [min, max] of TUNABLE_FIELDS, an   *)
(* out-of-range request being clamped to the nearest bound; a key that is  *)
(* not in TUNABLE_FIELDS changes nothing and is absent from the returned   *)
(* map; a value that cannot be converted leaves its key unchanged while    *)
(* the other keys of the same call are still applied; and a following      *)
(* restore_tunables reads back exactly the applied values.                 *)
(***************************************************************************)
Numeric(key) == TUNABLE_FIELDS[key].type \in {"int", "float"}
InItsRange(key, v) == TUNABLE_FIELDS[key].min <= v /\ v <= TUNABLE_FIELDS[key].max

\* the number requested for a numeric key, before clamping
Requested(key, value) ==
    IF TUNABLE_FIELDS[key].type = "int" THEN IntOf(value)
    ELSE FloatOf(value, TUNABLE_FIELDS[key].den)

NearestBound(key, value, v) ==
    LET x == Requested(key, value) IN
    x.kind = "finite" =>
        /\ x.v < TUNABLE_FIELDS[key].min => v = TUNABLE_FIELDS[key].min
        /\ x.v > TUNABLE_FIELDS[key].max => v = TUNABLE_FIELDS[key].max
        /\ InItsRange(key, x.v) => v = x.v

\* a step that is a call of set_tunables, with the items it was given
C15_SetStep ==
    tcall'.op = "set_tunables" =>
        LET u == tcall'.updates IN
        /\ \A i \in 1..Len(u) :
              LET key == u[i].key
                  value == u[i].value
              IN  IF key \notin TunableKeys
                  THEN /\ key \notin DOMAIN tcall'.applied
                       /\ key \notin DOMAIN settings'
                  ELSE IF Convert(TUNABLE_FIELDS[key], value).ok
                  THEN /\ config'[key] = Convert(TUNABLE_FIELDS[key], value).v
                       /\ Numeric(key) =>
                             /\ InItsRange(key, config'[key])
                             /\ NearestBound(key, value, config'[key])
                       /\ tcall'.outcome = "returned" =>
                             /\ key \in DOMAIN tcall'.applied
                             /\ tcall'.applied[key] = config'[key]
                  ELSE /\ config'[key] = config[key]
                       /\ key \notin DOMAIN tcall'.applied
        /\ \A key \in TunableKeys \ {u[i].key : i \in 1..Len(u)} :
              config'[key] = config[key]

\* a step that is a call of restore_tunables
C15_RestoreStep ==
    tcall'.op = "restore_tunables" =>
        \A key \in DOMAIN applied_values : config'[key] = applied_values[key]

C15_InRange ==
    \A key \in DOMAIN applied_values : Numeric(key) => InItsRange(key, config[key])

C15_Clamping == [][C15_SetStep /\ C15_RestoreStep /\ C15_InRange']_vars

====
